---- MODULE Spec2Model ----
(***************************************************************************)
(* Model of python-renderer/server.py: the /render handler that compiles a *)
(* timeline project into an ffmpeg filter graph, and its pure helpers.     *)
(*                                                                         *)
(* Numbers.  Seconds and speed ratios are exact fixed-point numbers: the   *)
(* integer n stands for n / U.  U is a multiple of 10^6 (so the six        *)
(* decimals written by _fmt are whole units), of 2^4 (so the halvings of   *)
(* _atempo_chain are exact, as they are in binary floating point) and of 3 *)
(* and 30 (so 1/framerate and a third of a second are whole units).        *)
(***************************************************************************)
EXTENDS Integers, Sequences, FiniteSets, TLC

U == 16 * 3 * 1000000
Micro == U \div 1000000

Max(a, b) == IF a >= b THEN a ELSE b

\* ------------------------------------------------------------ pure helpers

\* f"{v:.6f}": the decimal with six places nearest to v, a tie going to the
\* even neighbour; the result is the number the written text denotes.
_fmt(v) ==
    LET q == v \div Micro
        r == v % Micro
    IN  IF 2 * r < Micro THEN q * Micro
        ELSE IF 2 * r > Micro THEN (q + 1) * Micro
        ELSE IF q % 2 = 0 THEN q * Micro ELSE (q + 1) * Micro

\* speed = max(0.01, float(clip.get("speed", 1.0)))
ClampSpeed(raw) == Max(U \div 100, raw)

\* a / (b / U) without leaving 32 bits: both reduced by their common divisor.
RECURSIVE GCD(_, _)
GCD(a, b) == IF b = 0 THEN a ELSE GCD(b, a % b)

DivBySpeed(a, speed) ==
    LET g == GCD(speed, U)
    IN  (a * (U \div g)) \div (speed \div g)

\* max(0.0, media.duration - trimStart - trimEnd)
_clip_source_duration(clip, media) ==
    Max(0, media.duration - clip.trimStart - clip.trimEnd)

\* source_duration / max(0.01, speed)
_clip_duration(clip, media) ==
    DivBySpeed(Max(0, media.duration - clip.trimStart - clip.trimEnd),
               ClampSpeed(clip.speed))

\* The two while loops of _atempo_chain; a pair <<filters, remaining>>.
RECURSIVE AtempoAbove(_, _)
AtempoAbove(filters, remaining) ==
    IF remaining > 2 * U
    THEN AtempoAbove(Append(filters, 2 * U), remaining \div 2)
    ELSE <<filters, remaining>>

RECURSIVE AtempoBelow(_, _)
AtempoBelow(filters, remaining) ==
    IF remaining < U \div 2
    THEN AtempoBelow(Append(filters, U \div 2), remaining * 2)
    ELSE <<filters, remaining>>

\* Mutant of _atempo_chain: the upper loop runs while remaining >= 2.0.
RECURSIVE AtempoAboveIncl(_, _)
AtempoAboveIncl(filters, remaining) ==
    IF remaining >= 2 * U
    THEN AtempoAboveIncl(Append(filters, 2 * U), remaining \div 2)
    ELSE <<filters, remaining>>

_atempo_chain_incl(speed) ==
    LET hi == AtempoAboveIncl(<<>>, speed)
        lo == AtempoBelow(hi[1], hi[2])
    IN  Append(lo[1], _fmt(lo[2]))

\* Mutant of _atempo_chain: the remainder is dropped when the loops ran.
_atempo_chain_noremainder(speed) ==
    LET hi == AtempoAbove(<<>>, speed)
        lo == AtempoBelow(hi[1], hi[2])
    IN  IF lo[1] = <<>> THEN <<_fmt(lo[2])>> ELSE lo[1]

\* The factors of the chain, in order: "atempo=2" is 2 U, "atempo=0.5" is
\* U / 2, and the last one is the remainder as _fmt writes it.
_atempo_chain(speed) ==
    LET hi == AtempoAbove(<<>>, speed)
        lo == AtempoBelow(hi[1], hi[2])
    IN  Append(lo[1], _fmt(lo[2]))

\* ------------------------------------------------------------ the request

\* Bounds of the inputs.
MaxStartSec == 2
MaxSpeedSteps == 600
MaxExtraLines == 1

\* stderr.splitlines()[-25:]
TailLines == 25

Durations == {0, 3 * U, 5 * U}
\* Whole seconds, and the three short offsets the gap tolerances separate:
\* one millisecond, twenty milliseconds and one frame at 30 fps.
StartTimes ==
    {k * U : k \in 0..MaxStartSec} \cup {U \div 1000, U \div 50, U \div 30}
ClipSpeeds == {U \div 4, U, 3 * U, 4 * U}
StreamSets == {{}, {"video"}, {"audio"}, {"video", "audio"}}

Media(id, type) == [id |-> id, type |-> type, duration |-> 3 * U]

NoOverlay == [present |-> FALSE, content |-> "", duration |-> 0]
Overlay(content, duration) ==
    [present |-> TRUE, content |-> content, duration |-> duration]

Clip(id, mediaId, startTime, speed, overlay) ==
    [id |-> id, mediaId |-> mediaId, startTime |-> startTime,
     trimStart |-> 0, trimEnd |-> 0, speed |-> speed, reverse |-> FALSE,
     textOverlay |-> overlay]

Track(type, clips) == [type |-> type, clips |-> clips]

\* The multipart form: the project and settings documents (shape "ok"), or
\* what is wrong with them, and the media_<id> file parts with what ffprobe
\* reports for each saved file. Every part has the file name "upload"
\* unless a family says otherwise.
Request(shape, mediaFiles, tracks, duration, uploads, probe) ==
    [shape |-> shape, mediaFiles |-> mediaFiles, tracks |-> tracks,
     duration |-> duration, framerate |-> 30, format |-> "mp4",
     uploads |-> uploads, filenames |-> [m \in uploads |-> "upload"],
     probe |-> probe]

BothStreams(uploads) == [m \in uploads |-> {"video", "audio"}]

\* Video timing: one or two clips on a first video track, at most one on a
\* second, one audio clip; every media uploaded, with both streams.
VideoTimingRequests ==
    { Request("ok", <<Media("m1", "video"), Media("m2", "audio")>>,
              <<Track("video", t0), Track("video", t1),
                Track("audio", <<Clip("a1", "m2", 0, 4 * U, NoOverlay)>>)>>,
              dur, {"m1", "m2"}, BothStreams({"m1", "m2"})) :
        t0 \in { <<Clip("c1", "m1", s1, v1, NoOverlay)>> :
                     s1 \in StartTimes, v1 \in ClipSpeeds }
               \cup
               { <<Clip("c1", "m1", s1, v1, NoOverlay),
                   Clip("c2", "m1", s2, U, NoOverlay)>> :
                     s1 \in StartTimes, s2 \in StartTimes, v1 \in ClipSpeeds },
        t1 \in { <<>> } \cup
               { <<Clip("c3", "m2", s3, U, NoOverlay)>> : s3 \in StartTimes },
        dur \in Durations }

\* Audio timing: two clips on an audio track, no video track.
AudioTimingRequests ==
    { Request("ok", <<Media("m1", "video"), Media("m2", "audio")>>,
              <<Track("audio", <<Clip("a1", "m2", s1, v1, NoOverlay)>>),
                Track("audio", <<Clip("a2", "m1", s2, U, NoOverlay)>>)>>,
              dur, {"m1", "m2"}, BothStreams({"m1", "m2"})) :
        s1 \in StartTimes, s2 \in StartTimes, v1 \in ClipSpeeds,
        dur \in Durations }

\* Text overlays: three clips on a video track, each with or without an
\* overlay (of empty content, of a content of its own, of no duration); the
\* clips' media is listed (m1) or not (m3). There is no audio track, or one
\* whose clip declares an overlay too.
OverlayChoices(text) ==
    {NoOverlay, Overlay("", 2 * U), Overlay(text, 2 * U), Overlay(text, 0)}

OverlayRequests ==
    { Request("ok", <<Media("m1", "video")>>,
              <<Track("video", <<Clip("o1", mid, s1, U, ov1),
                                 Clip("o2", mid, s2, U, ov2),
                                 Clip("o3", mid, s3, U, ov3)>>)>> \o aud,
              3 * U, {"m1"}, BothStreams({"m1"})) :
        mid \in {"m1", "m3"},
        aud \in { <<>>,
                  <<Track("audio",
                          <<Clip("oa", "m1", 0, U, Overlay("ta", 2 * U))>>)>> },
        s1 \in {0, U}, s2 \in {0, U}, s3 \in {0, U},
        ov1 \in OverlayChoices("t1"), ov2 \in OverlayChoices("t2"),
        ov3 \in OverlayChoices("t3") }

\* Media: one clip on a video track and one on an audio track, each naming
\* a listed media (m1, m2) or an unlisted one (m3); any of m1, m2 uploaded,
\* with any probe result.
MediaRequests ==
    { Request("ok", <<Media("m1", ty1), Media("m2", ty2)>>,
              <<Track("video", <<Clip("c1", mv, 0, U, NoOverlay)>>),
                Track("audio", <<Clip("a1", ma, 0, U, NoOverlay)>>)>>,
              3 * U, DOMAIN pr, pr) :
        ty1 \in {"video", "audio"}, ty2 \in {"video", "audio"},
        mv \in {"m1", "m2", "m3"}, ma \in {"m1", "m2", "m3"},
        pr \in UNION { [ups -> StreamSets] : ups \in SUBSET {"m1", "m2"} } }

\* Shared file: the parts media_m1 (file name "x_clip") and media_m1_x (file
\* name "clip") are saved under one path; clips of both media, on a video
\* track and on an audio track.
SharedFileRequests ==
    { [Request("ok", <<Media("m1", "video"), Media("m1_x", "video"),
                       Media("m2", "audio")>>,
               <<Track("video", <<Clip("c1", v1, s1, U, NoOverlay),
                                  Clip("c2", v2, s2, U, NoOverlay)>>),
                 Track("audio", <<Clip("a1", a1, 0, U, NoOverlay),
                                  Clip("a2", a2, 3 * U, U, NoOverlay)>>)>>,
               5 * U, {"m1", "m1_x", "m2"}, BothStreams({"m1", "m1_x", "m2"}))
         EXCEPT !.filenames = [m1 |-> "x_clip", m1_x |-> "clip", m2 |-> "upload"]] :
        v1 \in {"m1", "m1_x", "m2"}, v2 \in {"m1", "m1_x", "m2"},
        a1 \in {"m1", "m1_x", "m2"}, a2 \in {"m1", "m1_x", "m2"},
        s1 \in {0, 3 * U}, s2 \in {0, 3 * U} }

\* Documents that are missing, not JSON, or JSON without the fields read.
BadShapes == {"missing", "badjson", "noproject", "nosettings"}

MalformedRequests ==
    { Request(shape, <<Media("m1", "video"), Media("m2", "audio")>>,
              <<Track("video", <<Clip("c1", mv, 0, U, NoOverlay)>>),
                Track("audio", <<Clip("a1", ma, 0, U, NoOverlay)>>)>>,
              3 * U, ups, [m \in ups |-> {}]) :
        shape \in BadShapes,
        mv \in {"m1", "m2", "m3"}, ma \in {"m1", "m2", "m3"},
        ups \in SUBSET {"m1", "m2"} }

Requests ==
    VideoTimingRequests \cup AudioTimingRequests \cup OverlayRequests
        \cup MediaRequests \cup SharedFileRequests \cup MalformedRequests

\* Speeds handed to _atempo_chain on their own: a grid of step 0.010001
\* (whose halves need rounding at the sixth decimal), round values, and
\* values between two sixth decimals.
SpeedStep == U \div 100 + Micro
TempoSpeeds ==
    {k * SpeedStep : k \in 0..MaxSpeedSteps}
        \cup {U \div 100, U \div 10, U \div 2, U, 2 * U, 4 * U, 5 * U, 8 * U}
        \cup {U \div 2 + 24, U + 23, 2 * U - 1, 3 * U + 8}

\* ------------------------------------------------------------ state

VARIABLES
    request,                \* the form of the request being served
    pc,                     \* position of the handler
    temp_dir,               \* "none", "held" or "released"
    media_paths,            \* media id -> saved file path
    stream_types_by_media,  \* media id -> probed stream kinds
    text_overlays,          \* collected overlays, sorted by start
    all_video, all_audio,   \* retained items, sorted by startTime
    inputs,                 \* the -i paths of args, in order
    input_index,            \* media id -> input position
    filter_parts,           \* the statements of the filter graph
    seg_idx,                \* the s<n> label counter
    video_segments, audio_segments,
    current_t,              \* the cursor of the running timeline
    i,                      \* position of the running loop (from 1)
    source_label, has_text_filters,
    args,                   \* what Assemble adds to the command
    response,               \* what the caller gets
    engine_runs,            \* ffmpeg invocations so far
    proc,                   \* what the last invocation returned
    tempo_speed, tempo_chain, tempo_pc

vars ==
    <<request, pc, temp_dir, media_paths, stream_types_by_media,
      text_overlays, all_video, all_audio, inputs, input_index, filter_parts,
      seg_idx, video_segments, audio_segments, current_t, i, source_label,
      has_text_filters, args, response, engine_runs, proc,
      tempo_speed, tempo_chain, tempo_pc>>

tempoVars == <<tempo_speed, tempo_chain, tempo_pc>>

renderVars ==
    <<request, pc, temp_dir, media_paths, stream_types_by_media,
      text_overlays, all_video, all_audio, inputs, input_index, filter_parts,
      seg_idx, video_segments, audio_segments, current_t, i, source_label,
      has_text_filters, args, response, engine_runs, proc>>

EmptyMap == [m \in {} |-> 0]
NoArgs == [filter_complex |-> FALSE, maps |-> <<>>, vcodec |-> "",
           acodec |-> "", t |-> 0]
NoResponse == [status |-> 0, detail |-> "", err_lines |-> <<>>]
NoProc == [returncode |-> 0, exists |-> FALSE, stderr |-> <<>>]

RenderIdle ==
    /\ temp_dir = "none"
    /\ media_paths = EmptyMap
    /\ stream_types_by_media = EmptyMap
    /\ text_overlays = <<>>
    /\ all_video = <<>>
    /\ all_audio = <<>>
    /\ inputs = <<>>
    /\ input_index = EmptyMap
    /\ filter_parts = <<>>
    /\ seg_idx = 0
    /\ video_segments = <<>>
    /\ audio_segments = <<>>
    /\ current_t = 0
    /\ i = 1
    /\ source_label = "vout"
    /\ has_text_filters = FALSE
    /\ args = NoArgs
    /\ response = NoResponse
    /\ engine_runs = 0
    /\ proc = NoProc

Init ==
    /\ request \in Requests
    /\ pc = "start"
    /\ RenderIdle
    /\ tempo_speed = 0
    /\ tempo_chain = <<>>
    /\ tempo_pc = "off"

\* ------------------------------------------------------------ render: reading the request

\* Mutant of Fail: the error leaves without removing the directory.
FailKeepDir(status, detail) ==
    /\ response' = [status |-> status, detail |-> detail, err_lines |-> <<>>]
    /\ UNCHANGED temp_dir
    /\ pc' = "done"

\* Leaving through an except branch: shutil.rmtree(temp_dir), then the error.
Fail(status, detail) ==
    /\ response' = [status |-> status, detail |-> detail, err_lines |-> <<>>]
    /\ temp_dir' = "released"
    /\ pc' = "done"

\* form.get("project"), form.get("settings"), json.loads, tempfile.mkdtemp.
ParseForm ==
    /\ pc = "start"
    /\ IF request.shape = "missing"
       THEN /\ response' = [status |-> 400, detail |-> "Missing project/settings",
                             err_lines |-> <<>>]
            /\ pc' = "done"
            /\ UNCHANGED temp_dir
       ELSE IF request.shape = "badjson"
       THEN /\ response' = [status |-> 400, detail |-> "Invalid JSON payload",
                             err_lines |-> <<>>]
            /\ pc' = "done"
            /\ UNCHANGED temp_dir
       ELSE /\ temp_dir' = "held"
            /\ pc' = "uploads"
            /\ UNCHANGED response
    /\ UNCHANGED <<request, media_paths, stream_types_by_media, text_overlays,
                   all_video, all_audio, inputs, input_index, filter_parts,
                   seg_idx, video_segments, audio_segments, current_t, i,
                   source_label, has_text_filters, args, engine_runs, proc>>
    /\ UNCHANGED tempoVars

\* target = Path(temp_dir) / f"{media_id}_{filename}"
UploadPath(media_id) ==
    "tmp/" \o media_id \o "_" \o request.filenames[media_id]

\* The media_ parts are written to the directory, then project["mediaFiles"]
\* is read and every saved file is probed.
SaveUploads ==
    /\ pc = "uploads"
    /\ media_paths' = [m \in request.uploads |-> UploadPath(m)]
    /\ IF request.shape = "noproject"
       THEN /\ Fail(500, "KeyError")
            /\ UNCHANGED stream_types_by_media
       ELSE /\ stream_types_by_media' = [m \in request.uploads |-> request.probe[m]]
            /\ pc' = "collect"
            /\ UNCHANGED <<temp_dir, response>>
    /\ UNCHANGED <<request, text_overlays, all_video, all_audio, inputs,
                   input_index, filter_parts, seg_idx, video_segments,
                   audio_segments, current_t, i, source_label,
                   has_text_filters, args, engine_runs, proc>>
    /\ UNCHANGED tempoVars

\* [t for t in project["tracks"] if t["type"] == type]
TracksOfType(type) == SelectSeq(request.tracks, LAMBDA t : t.type = type)

RECURSIVE Flatten(_)
Flatten(seqs) ==
    IF seqs = <<>> THEN <<>> ELSE Head(seqs) \o Flatten(Tail(seqs))

\* Mutant of OverlayItems: the clips of all tracks are looked at.
OverlayItemsAllTracks ==
    LET tracks == request.tracks
        item(clip) ==
            [start |-> clip.startTime,
             end |-> clip.startTime + Max(0, clip.textOverlay.duration),
             overlay |-> clip.textOverlay]
        perTrack(track) ==
            LET all == [k \in 1..Len(track.clips) |-> item(track.clips[k])]
                keep == { k \in 1..Len(track.clips) :
                            /\ track.clips[k].textOverlay.present
                            /\ all[k].end > all[k].start }
            IN  SelectSeq([k \in 1..Len(all) |-> [idx |-> k, it |-> all[k]]],
                          LAMBDA e : e.idx \in keep)
        marked == Flatten([t \in 1..Len(tracks) |-> perTrack(tracks[t])])
    IN  [k \in 1..Len(marked) |-> marked[k].it]

\* The overlay windows of the clips of the video tracks, in input order.
OverlayItems ==
    LET tracks == TracksOfType("video")
        item(clip) ==
            [start |-> clip.startTime,
             end |-> clip.startTime + Max(0, clip.textOverlay.duration),
             overlay |-> clip.textOverlay]
        perTrack(track) ==
            LET all == [k \in 1..Len(track.clips) |-> item(track.clips[k])]
                keep == { k \in 1..Len(track.clips) :
                            /\ track.clips[k].textOverlay.present
                            /\ all[k].end > all[k].start }
            IN  SelectSeq([k \in 1..Len(all) |-> [idx |-> k, it |-> all[k]]],
                          LAMBDA e : e.idx \in keep)
        marked == Flatten([t \in 1..Len(tracks) |-> perTrack(tracks[t])])
    IN  [k \in 1..Len(marked) |-> marked[k].it]

\* text_overlays.sort(key=lambda item: item["start"]): a stable sort.
SortOverlays(items) ==
    LET n == Len(items)
        rank(k) ==
            Cardinality({ j \in 1..n :
                \/ items[j].start < items[k].start
                \/ (items[j].start = items[k].start /\ j < k) }) + 1
    IN  [r \in 1..n |-> items[CHOOSE k \in 1..n : rank(k) = r]]

CollectOverlays ==
    /\ pc = "collect"
    /\ text_overlays' = SortOverlays(OverlayItems)
    /\ pc' = "linearize"
    /\ UNCHANGED <<request, temp_dir, media_paths, stream_types_by_media,
                   all_video, all_audio, inputs, input_index, filter_parts,
                   seg_idx, video_segments, audio_segments, current_t, i,
                   source_label, has_text_filters, args, response,
                   engine_runs, proc>>
    /\ UNCHANGED tempoVars

\* media_map.get(clip["mediaId"]): the listed media with that id, if any.
MediaNamed(id) ==
    { request.mediaFiles[k] : k \in { j \in 1..Len(request.mediaFiles) :
                                        request.mediaFiles[j].id = id } }

\* stream_types_by_media.get(media["id"], set())
StreamTypes(id) ==
    IF id \in DOMAIN stream_types_by_media
    THEN stream_types_by_media[id] ELSE {}

\* Mutant of HasStream: the declared type counts whatever the probe found.
HasStreamOrDeclared(media, kind) ==
    \/ kind \in StreamTypes(media.id)
    \/ media.type = kind

\* kind in stream_types or (not stream_types and media.get("type") == kind)
HasStream(media, kind) ==
    \/ kind \in StreamTypes(media.id)
    \/ (StreamTypes(media.id) = {} /\ media.type = kind)

\* The items of the tracks of one type, in track order then clip order:
\* a clip is kept when its media is listed and has the stream kind.
ItemsOfType(type) ==
    LET tracks == TracksOfType(type)
        perTrack(ti) ==
            LET clips == tracks[ti].clips
                kept == SelectSeq(clips, LAMBDA c :
                            \E m \in MediaNamed(c.mediaId) : HasStream(m, type))
            IN  [k \in 1..Len(kept) |->
                    [clip |-> kept[k],
                     media |-> CHOOSE m \in MediaNamed(kept[k].mediaId) : TRUE,
                     trackIndex |-> ti - 1]]
    IN  Flatten([ti \in 1..Len(tracks) |-> perTrack(ti)])

\* Mutant of SortItems: clips of equal startTime end up in reverse order.
SortItemsUnstable(items) ==
    LET n == Len(items)
        rank(k) ==
            Cardinality({ j \in 1..n :
                \/ items[j].clip.startTime < items[k].clip.startTime
                \/ (items[j].clip.startTime = items[k].clip.startTime /\ j > k) }) + 1
    IN  [r \in 1..n |-> items[CHOOSE k \in 1..n : rank(k) = r]]

\* items.sort(key=lambda x: float(x["clip"]["startTime"])): a stable sort.
SortItems(items) ==
    LET n == Len(items)
        rank(k) ==
            Cardinality({ j \in 1..n :
                \/ items[j].clip.startTime < items[k].clip.startTime
                \/ (items[j].clip.startTime = items[k].clip.startTime /\ j < k) }) + 1
    IN  [r \in 1..n |-> items[CHOOSE k \in 1..n : rank(k) = r]]

\* Mutant of LinearizeClips: no empty-timeline check.
LinearizeClipsNoEmptyCheck ==
    /\ pc = "linearize"
    /\ all_video' = SortItems(ItemsOfType("video"))
    /\ all_audio' = SortItems(ItemsOfType("audio"))
    /\ pc' = "settings"
    /\ UNCHANGED <<temp_dir, response>>
    /\ UNCHANGED <<request, media_paths, stream_types_by_media, text_overlays,
                   inputs, input_index, filter_parts, seg_idx, video_segments,
                   audio_segments, current_t, i, source_label,
                   has_text_filters, args, engine_runs, proc>>
    /\ UNCHANGED tempoVars

\* all_video, all_audio, and the empty-timeline check.
LinearizeClips ==
    /\ pc = "linearize"
    /\ all_video' = SortItems(ItemsOfType("video"))
    /\ all_audio' = SortItems(ItemsOfType("audio"))
    /\ IF all_video' = <<>> /\ all_audio' = <<>> /\ text_overlays = <<>>
       THEN Fail(400, "No clips to render")
       ELSE /\ pc' = "settings"
            /\ UNCHANGED <<temp_dir, response>>
    /\ UNCHANGED <<request, media_paths, stream_types_by_media, text_overlays,
                   inputs, input_index, filter_parts, seg_idx, video_segments,
                   audio_segments, current_t, i, source_label,
                   has_text_filters, args, engine_runs, proc>>
    /\ UNCHANGED tempoVars

\* framerate = int(settings["framerate"]); frame_dur = 1.0 / framerate
frame_dur == U \div request.framerate
\* output_duration = max(duration, 1.0 / framerate)
output_duration == Max(request.duration, U \div request.framerate)

\* width, height, framerate and duration are read from the documents.
ReadSettings ==
    /\ pc = "settings"
    /\ IF request.shape = "nosettings"
       THEN Fail(500, "KeyError")
       ELSE /\ pc' = "inputs"
            /\ UNCHANGED <<temp_dir, response>>
    /\ UNCHANGED <<request, media_paths, stream_types_by_media, text_overlays,
                   all_video, all_audio, inputs, input_index, filter_parts,
                   seg_idx, video_segments, audio_segments, current_t, i,
                   source_label, has_text_filters, args, engine_runs, proc>>
    /\ UNCHANGED tempoVars

\* Mutant of PathIndex: positions counted from 1.
PathIndexFromOne(paths, path) == CHOOSE k \in 1..Len(paths) : paths[k] = path

\* path_to_idx[media_path]: the position of the path among the -i inputs.
PathIndex(paths, path) == (CHOOSE k \in 1..Len(paths) : paths[k] = path) - 1

InSeq(x, seq) == \E k \in 1..Len(seq) : seq[k] = x

\* Mutant of InputsLoop: no check of media_path; an item without uploaded
\* bytes gets an input of its own with the path None.
RECURSIVE InputsLoopNoCheck(_, _, _, _)
InputsLoopNoCheck(items, k, paths, index) ==
    IF k > Len(items)
    THEN [missing |-> FALSE, inputs |-> paths, input_index |-> index]
    ELSE LET media_id == items[k].media.id
             media_path == IF media_id \in DOMAIN media_paths
                           THEN media_paths[media_id] ELSE "None"
             paths2 == IF InSeq(media_path, paths) THEN paths
                       ELSE Append(paths, media_path)
         IN  InputsLoopNoCheck(items, k + 1, paths2,
                 (media_id :> PathIndex(paths2, media_path)) @@ index)

\* Mutant of InputsLoop: every item adds its file to the inputs, there or
\* not, and takes the new position.
RECURSIVE InputsLoopNoDedup(_, _, _, _)
InputsLoopNoDedup(items, k, paths, index) ==
    IF k > Len(items)
    THEN [missing |-> FALSE, inputs |-> paths, input_index |-> index]
    ELSE LET media_id == items[k].media.id
         IN  IF media_id \notin DOMAIN media_paths
             THEN [missing |-> TRUE, inputs |-> paths, input_index |-> index]
             ELSE LET paths2 == Append(paths, media_paths[media_id])
                  IN  InputsLoopNoDedup(items, k + 1, paths2,
                          (media_id :> Len(paths2) - 1) @@ index)

\* The loop over [*all_video, *all_audio] from item k on: it stops at the
\* first item whose media has no uploaded file, else it adds the file to the
\* inputs unless it is there and records the item's input position.
RECURSIVE InputsLoop(_, _, _, _)
InputsLoop(items, k, paths, index) ==
    IF k > Len(items)
    THEN [missing |-> FALSE, inputs |-> paths, input_index |-> index]
    ELSE LET media_id == items[k].media.id
         IN  IF media_id \notin DOMAIN media_paths
             THEN [missing |-> TRUE, inputs |-> paths, input_index |-> index]
             ELSE LET media_path == media_paths[media_id]
                      paths2 == IF InSeq(media_path, paths) THEN paths
                                ELSE Append(paths, media_path)
                  IN  InputsLoop(items, k + 1, paths2,
                          (media_id :> PathIndex(paths2, media_path)) @@ index)

\* Inputs (dedup by file path), then the counters of the filter graph.
BuildInputs ==
    /\ pc = "inputs"
    /\ LET r == InputsLoop(all_video \o all_audio, 1, <<>>, EmptyMap)
       IN  IF r.missing
           THEN /\ Fail(400, "Missing uploaded media")
                /\ UNCHANGED <<inputs, input_index>>
           ELSE /\ inputs' = r.inputs
                /\ input_index' = r.input_index
                /\ pc' = "video"
                /\ UNCHANGED <<temp_dir, response>>
    /\ UNCHANGED <<request, media_paths, stream_types_by_media, text_overlays,
                   all_video, all_audio, filter_parts, seg_idx, video_segments,
                   audio_segments, current_t, i, source_label,
                   has_text_filters, args, engine_runs, proc>>
    /\ UNCHANGED tempoVars

\* ------------------------------------------------------------ render: the filter graph

\* One statement of filter_parts.  ins are the labels it consumes, out the
\* label it produces; src is the input position a clip chain reads ([src:v]
\* or [src:a]); d is the d= or duration= value as _fmt writes it and dur the
\* time the segment plays for (the gap, or the clip's effective duration);
\* clip is the clip id the [V-SEG]/[A-SEG] log line names.
Statement ==
    [kind |-> "", ins |-> <<>>, out |-> "", src |-> -1, clip |-> "",
     trim_start |-> 0, d |-> 0, dur |-> 0, speed |-> 0, reverse |-> FALSE,
     tempo |-> <<>>, n |-> 0, text |-> "", start |-> 0, end |-> 0]

\* lbl = f"s{seg_idx}"
SegLabel(n) == "s" \o ToString(n)

\* Mutant of GapExceeds: every gap that is not negative gets a filler.
GapNotNegative(gap, tolerance) == gap >= 0

\* Mutant of GapExceeds: a gap equal to the tolerance gets a filler too.
GapExceedsOrEquals(gap, tolerance) == gap >= tolerance

\* if gap > frame_dur / if gap > 0.001 / if trail > ...
GapExceeds(gap, tolerance) == gap > tolerance

AudioTolerance == U \div 1000

\* color=c=black:s=WxH:r=R:d=<gap>,format=yuv420p[lbl]
ColorFiller(lbl, gap) ==
    [Statement EXCEPT !.kind = "color", !.out = lbl, !.d = _fmt(gap),
                      !.dur = gap]

\* anullsrc=r=48000:cl=stereo:d=<gap>,aformat=...[lbl]
SilenceFiller(lbl, gap) ==
    [Statement EXCEPT !.kind = "anullsrc", !.out = lbl, !.d = _fmt(gap),
                      !.dur = gap]

\* [src:v]trim=start=..:duration=..,[reverse,]setpts=(PTS-STARTPTS)/speed,
\* fps,scale,pad,format,setsar[lbl]
VideoChain(lbl, item, src_idx) ==
    [Statement EXCEPT
        !.kind = "vclip", !.out = lbl, !.src = src_idx, !.clip = item.clip.id,
        !.trim_start = _fmt(item.clip.trimStart),
        !.d = _fmt(_clip_source_duration(item.clip, item.media)),
        !.dur = _clip_duration(item.clip, item.media),
        !.speed = _fmt(ClampSpeed(item.clip.speed)),
        !.reverse = item.clip.reverse]

\* [src:a]atrim=start=..:duration=..,asetpts=PTS-STARTPTS,[areverse,]
\* atempo=..,aformat=...[lbl]
AudioChain(lbl, item, src_idx) ==
    [Statement EXCEPT
        !.kind = "aclip", !.out = lbl, !.src = src_idx, !.clip = item.clip.id,
        !.trim_start = _fmt(item.clip.trimStart),
        !.d = _fmt(_clip_source_duration(item.clip, item.media)),
        !.dur = _clip_duration(item.clip, item.media),
        !.speed = ClampSpeed(item.clip.speed),
        !.reverse = item.clip.reverse,
        !.tempo = _atempo_chain(ClampSpeed(item.clip.speed))]

\* <segments>concat=n=<len>:v=1:a=0[vout] / ...:v=0:a=1[aout]
Concat(kind, segments, out) ==
    [Statement EXCEPT !.kind = kind, !.ins = segments, !.out = out,
                      !.n = Len(segments)]

\* One pass of "for item in all_video": the filler when the gap exceeds one
\* frame, the clip chain, the cursor.
VideoClipStep ==
    /\ pc = "video"
    /\ all_video # <<>>
    /\ i <= Len(all_video)
    /\ LET item == all_video[i]
           clip_start == item.clip.startTime
           clip_dur == _clip_duration(item.clip, item.media)
           src_idx == input_index[item.media.id]
           gap == clip_start - current_t
           filler == GapExceeds(gap, frame_dur)
           idx2 == IF filler THEN seg_idx + 1 ELSE seg_idx
           fill == IF filler THEN <<ColorFiller(SegLabel(seg_idx), gap)>> ELSE <<>>
           fillLbl == IF filler THEN <<SegLabel(seg_idx)>> ELSE <<>>
       IN  /\ filter_parts' = filter_parts \o fill
                                \o <<VideoChain(SegLabel(idx2), item, src_idx)>>
           /\ video_segments' = video_segments \o fillLbl \o <<SegLabel(idx2)>>
           /\ seg_idx' = idx2 + 1
           /\ current_t' = clip_start + clip_dur
    /\ i' = i + 1
    /\ UNCHANGED <<request, pc, temp_dir, media_paths, stream_types_by_media,
                   text_overlays, all_video, all_audio, inputs, input_index,
                   audio_segments, source_label, has_text_filters, args,
                   response, engine_runs, proc>>
    /\ UNCHANGED tempoVars

\* After the loop: the trailing filler when the rest exceeds one frame, and
\* the concat statement bound to vout.
VideoTrail ==
    /\ pc = "video"
    /\ all_video # <<>>
    /\ i > Len(all_video)
    /\ LET trail == output_duration - current_t
           filler == GapExceeds(trail, frame_dur)
           fill == IF filler THEN <<ColorFiller(SegLabel(seg_idx), trail)>> ELSE <<>>
           segs == IF filler THEN Append(video_segments, SegLabel(seg_idx))
                   ELSE video_segments
       IN  /\ video_segments' = segs
           /\ seg_idx' = IF filler THEN seg_idx + 1 ELSE seg_idx
           /\ filter_parts' = filter_parts \o fill
                                \o <<Concat("vconcat", segs, "vout")>>
    /\ pc' = "text"
    /\ i' = 1
    /\ UNCHANGED <<request, temp_dir, media_paths, stream_types_by_media,
                   text_overlays, all_video, all_audio, inputs, input_index,
                   audio_segments, current_t, source_label, has_text_filters,
                   args, response, engine_runs, proc>>
    /\ UNCHANGED tempoVars

\* elif text_overlays: one blank source of the whole duration, bound to vout.
VideoBlank ==
    /\ pc = "video"
    /\ all_video = <<>>
    /\ text_overlays # <<>>
    /\ filter_parts' = Append(filter_parts, ColorFiller("vout", output_duration))
    /\ video_segments' = Append(video_segments, "vout")
    /\ pc' = "text"
    /\ i' = 1
    /\ UNCHANGED <<request, temp_dir, media_paths, stream_types_by_media,
                   text_overlays, all_video, all_audio, inputs, input_index,
                   seg_idx, audio_segments, current_t, source_label,
                   has_text_filters, args, response, engine_runs, proc>>
    /\ UNCHANGED tempoVars

\* Neither video clips nor overlays: no video statement at all.
VideoNone ==
    /\ pc = "video"
    /\ all_video = <<>>
    /\ text_overlays = <<>>
    /\ pc' = "text"
    /\ i' = 1
    /\ UNCHANGED <<request, temp_dir, media_paths, stream_types_by_media,
                   text_overlays, all_video, all_audio, inputs, input_index,
                   filter_parts, seg_idx, video_segments, audio_segments,
                   current_t, source_label, has_text_filters, args, response,
                   engine_runs, proc>>
    /\ UNCHANGED tempoVars

\* out_label = "vout_text" if i == len(text_overlays) - 1 else f"vtxt{i}",
\* for the overlay at position k (from 1) of n.
OutLabel(k, n) == IF k = n THEN "vout_text" ELSE "vtxt" \o ToString(k - 1)

\* Mutant of DrawText: every stage reads the composed label vout.
DrawTextFromVout(source, k, n, item) ==
    [Statement EXCEPT
        !.kind = "drawtext", !.ins = <<"vout">>, !.out = OutLabel(k, n),
        !.text = item.overlay.content, !.start = _fmt(item.start),
        !.end = _fmt(item.end)]

\* [source]drawtext=text='..':..:enable='between(t,start,end)'[out_label]
DrawText(source, k, n, item) ==
    [Statement EXCEPT
        !.kind = "drawtext", !.ins = <<source>>, !.out = OutLabel(k, n),
        !.text = item.overlay.content, !.start = _fmt(item.start),
        !.end = _fmt(item.end)]

\* One pass of "for i, item in enumerate(text_overlays)": nothing for an
\* empty content, else a drawtext stage reading source_label.
TextOverlayStep ==
    /\ pc = "text"
    /\ i <= Len(text_overlays)
    /\ LET item == text_overlays[i]
       IN  IF item.overlay.content = ""
           THEN UNCHANGED <<filter_parts, source_label, has_text_filters>>
           ELSE /\ filter_parts' = Append(filter_parts,
                        DrawText(source_label, i, Len(text_overlays), item))
                /\ source_label' = OutLabel(i, Len(text_overlays))
                /\ has_text_filters' = TRUE
    /\ i' = i + 1
    /\ UNCHANGED <<request, pc, temp_dir, media_paths, stream_types_by_media,
                   text_overlays, all_video, all_audio, inputs, input_index,
                   seg_idx, video_segments, audio_segments, current_t, args,
                   response, engine_runs, proc>>
    /\ UNCHANGED tempoVars

\* The overlay loop is over (or there was no overlay): on to the audio
\* timeline, whose cursor starts at 0.
TextDone ==
    /\ pc = "text"
    /\ i > Len(text_overlays)
    /\ pc' = "audio"
    /\ i' = 1
    /\ current_t' = 0
    /\ UNCHANGED <<request, temp_dir, media_paths, stream_types_by_media,
                   text_overlays, all_video, all_audio, inputs, input_index,
                   filter_parts, seg_idx, video_segments, audio_segments,
                   source_label, has_text_filters, args, response,
                   engine_runs, proc>>
    /\ UNCHANGED tempoVars

\* One pass of "for item in all_audio": the silence when the gap exceeds
\* one millisecond, the clip chain with its tempo chain, the cursor.
AudioClipStep ==
    /\ pc = "audio"
    /\ all_audio # <<>>
    /\ i <= Len(all_audio)
    /\ LET item == all_audio[i]
           clip_start == item.clip.startTime
           clip_dur == _clip_duration(item.clip, item.media)
           src_idx == input_index[item.media.id]
           gap == clip_start - current_t
           filler == GapExceeds(gap, AudioTolerance)
           idx2 == IF filler THEN seg_idx + 1 ELSE seg_idx
           fill == IF filler THEN <<SilenceFiller(SegLabel(seg_idx), gap)>> ELSE <<>>
           fillLbl == IF filler THEN <<SegLabel(seg_idx)>> ELSE <<>>
       IN  /\ filter_parts' = filter_parts \o fill
                                \o <<AudioChain(SegLabel(idx2), item, src_idx)>>
           /\ audio_segments' = audio_segments \o fillLbl \o <<SegLabel(idx2)>>
           /\ seg_idx' = idx2 + 1
           /\ current_t' = clip_start + clip_dur
    /\ i' = i + 1
    /\ UNCHANGED <<request, pc, temp_dir, media_paths, stream_types_by_media,
                   text_overlays, all_video, all_audio, inputs, input_index,
                   video_segments, source_label, has_text_filters, args,
                   response, engine_runs, proc>>
    /\ UNCHANGED tempoVars

\* After the loop: the trailing silence when the rest exceeds one
\* millisecond, and the concat statement bound to aout.
AudioTrail ==
    /\ pc = "audio"
    /\ all_audio # <<>>
    /\ i > Len(all_audio)
    /\ LET trail == output_duration - current_t
           filler == GapExceeds(trail, AudioTolerance)
           fill == IF filler THEN <<SilenceFiller(SegLabel(seg_idx), trail)>> ELSE <<>>
           segs == IF filler THEN Append(audio_segments, SegLabel(seg_idx))
                   ELSE audio_segments
       IN  /\ audio_segments' = segs
           /\ seg_idx' = IF filler THEN seg_idx + 1 ELSE seg_idx
           /\ filter_parts' = filter_parts \o fill
                                \o <<Concat("aconcat", segs, "aout")>>
    /\ pc' = "assemble"
    /\ UNCHANGED <<request, temp_dir, media_paths, stream_types_by_media,
                   text_overlays, all_video, all_audio, inputs, input_index,
                   video_segments, current_t, i, source_label,
                   has_text_filters, args, response, engine_runs, proc>>
    /\ UNCHANGED tempoVars

\* No audio clip: no audio statement.
AudioNone ==
    /\ pc = "audio"
    /\ all_audio = <<>>
    /\ pc' = "assemble"
    /\ UNCHANGED <<request, temp_dir, media_paths, stream_types_by_media,
                   text_overlays, all_video, all_audio, inputs, input_index,
                   filter_parts, seg_idx, video_segments, audio_segments,
                   current_t, i, source_label, has_text_filters, args,
                   response, engine_runs, proc>>
    /\ UNCHANGED tempoVars

\* ------------------------------------------------------------ render: the command and the engine

\* -filter_complex, the -map options, the codecs and -t.
Assemble ==
    /\ pc = "assemble"
    /\ args' =
         [filter_complex |-> filter_parts # <<>>,
          maps |-> (IF video_segments # <<>>
                    THEN <<IF has_text_filters THEN "vout_text" ELSE "vout">>
                    ELSE <<>>)
                   \o (IF audio_segments # <<>> THEN <<"aout">> ELSE <<>>),
          vcodec |-> IF video_segments = <<>> THEN ""
                     ELSE IF request.format = "mp4" THEN "libx264"
                     ELSE "libvpx-vp9",
          acodec |-> IF audio_segments = <<>> THEN ""
                     ELSE IF request.format = "mp4" THEN "aac" ELSE "libopus",
          t |-> output_duration]
    /\ pc' = "engine"
    /\ UNCHANGED <<request, temp_dir, media_paths, stream_types_by_media,
                   text_overlays, all_video, all_audio, inputs, input_index,
                   filter_parts, seg_idx, video_segments, audio_segments,
                   current_t, i, source_label, has_text_filters, response,
                   engine_runs, proc>>
    /\ UNCHANGED tempoVars

\* The diagnostic text of ffmpeg, as its lines: none, one line, as many
\* lines as are kept, more than are kept, blank lines only, and lines
\* followed by blank ones.
StderrLines(n) == [k \in 1..n |-> "line " \o ToString(k)]
StderrTexts ==
    {StderrLines(n) : n \in {0, 1, TailLines}}
        \cup {StderrLines(TailLines + k) : k \in 1..MaxExtraLines}
        \cup {<<"", "">>, StderrLines(TailLines + 1) \o <<"", "">>}

\* str.strip() seen on the lines of a text: the blank lines at both ends go.
RECURSIVE Strip(_)
Strip(lines) ==
    IF lines = <<>> THEN <<>>
    ELSE IF Head(lines) = "" THEN Strip(Tail(lines))
    ELSE IF lines[Len(lines)] = "" THEN Strip(SubSeq(lines, 1, Len(lines) - 1))
    ELSE lines

\* Mutant of ErrLines: the whole text is returned.
ErrLinesWhole(text) ==
    LET stderr == Strip(IF text = <<>> THEN <<"Unknown ffmpeg error">> ELSE text)
    IN  IF stderr # <<>> THEN stderr ELSE <<"Unknown ffmpeg error">>

\* stderr = (proc.stderr or "Unknown ffmpeg error").strip()
\* "\n".join(stderr.splitlines()[-25:]) if stderr else "Unknown ffmpeg error"
ErrLines(text) ==
    LET stderr == Strip(IF text = <<>> THEN <<"Unknown ffmpeg error">> ELSE text)
    IN  IF stderr # <<>>
        THEN SubSeq(stderr, Max(1, Len(stderr) - TailLines + 1), Len(stderr))
        ELSE <<"Unknown ffmpeg error">>

\* subprocess.run(args), once: ffmpeg returns zero and the file is there,
\* and the file is returned with the directory's removal left to a
\* background task; or ffmpeg returns non-zero (the file is then not looked
\* for: exists stays FALSE), or zero without a file, and the request ends
\* with the tail of the diagnostic text.
RunEngine ==
    /\ pc = "engine"
    /\ engine_runs' = engine_runs + 1
    /\ \/ /\ proc' = [returncode |-> 0, exists |-> TRUE, stderr |-> <<>>]
          /\ response' = [status |-> 200, detail |-> "rendered",
                          err_lines |-> <<>>]
          /\ pc' = "respond"
          /\ UNCHANGED temp_dir
       \/ \E returncode \in {0, 1}, text \in StderrTexts :
            /\ proc' = [returncode |-> returncode, exists |-> FALSE,
                        stderr |-> text]
            /\ response' = [status |-> 500, detail |-> "FFmpeg failed",
                            err_lines |-> ErrLines(text)]
            /\ temp_dir' = "released"
            /\ pc' = "done"
    /\ UNCHANGED <<request, media_paths, stream_types_by_media, text_overlays,
                   all_video, all_audio, inputs, input_index, filter_parts,
                   seg_idx, video_segments, audio_segments, current_t, i,
                   source_label, has_text_filters, args>>
    /\ UNCHANGED tempoVars

\* background_tasks.add_task(shutil.rmtree, temp_dir, True), run after the
\* response was sent.
CleanupTask ==
    /\ pc = "respond"
    /\ temp_dir' = "released"
    /\ pc' = "done"
    /\ UNCHANGED <<request, media_paths, stream_types_by_media, text_overlays,
                   all_video, all_audio, inputs, input_index, filter_parts,
                   seg_idx, video_segments, audio_segments, current_t, i,
                   source_label, has_text_filters, args, response,
                   engine_runs, proc>>
    /\ UNCHANGED tempoVars

Next ==
    \/ ParseForm
    \/ SaveUploads
    \/ CollectOverlays
    \/ LinearizeClips
    \/ ReadSettings
    \/ BuildInputs
    \/ VideoClipStep
    \/ VideoTrail
    \/ VideoBlank
    \/ VideoNone
    \/ TextOverlayStep
    \/ TextDone
    \/ AudioClipStep
    \/ AudioTrail
    \/ AudioNone
    \/ Assemble
    \/ RunEngine
    \/ CleanupTask

Spec == Init /\ [][Next]_vars

\* The handler is a coroutine the server runs to its end, and the task added
\* to background_tasks is run by the framework once the response was sent:
\* a step that can be taken is taken.
\* The requests it is run on take every way out of the handler: all of the
\* media and malformed families, and the overlay requests with at most one
\* overlay, at 0.
ExitPathRequests ==
    MediaRequests \cup MalformedRequests
        \cup { r \in OverlayRequests :
                 \A k \in 1..3 :
                    /\ r.tracks[1].clips[k].startTime = 0
                    /\ k > 1 => ~r.tracks[1].clips[k].textOverlay.present }

InitFair == Init /\ request \in ExitPathRequests

SpecFair == InitFair /\ [][Next]_vars /\ WF_vars(Next)

\* ------------------------------------------------------------ _atempo_chain on its own

InitTempo ==
    /\ request = Request("ok", <<>>, <<>>, 0, {}, EmptyMap)
    /\ pc = "done"
    /\ RenderIdle
    /\ tempo_speed \in TempoSpeeds
    /\ tempo_chain = <<>>
    /\ tempo_pc = "call"

\* audio_effects.extend(_atempo_chain(speed)), speed = max(0.01, raw speed).
TempoCall ==
    /\ tempo_pc = "call"
    /\ tempo_chain' = _atempo_chain(ClampSpeed(tempo_speed))
    /\ tempo_pc' = "returned"
    /\ UNCHANGED tempo_speed
    /\ UNCHANGED renderVars

NextTempo == TempoCall

SpecTempo == InitTempo /\ [][NextTempo]_vars

\* ------------------------------------------------------------ what the properties read

Abs(x) == IF x < 0 THEN 0 - x ELSE x

RECURSIVE SumDur(_)
SumDur(stmts) ==
    IF stmts = <<>> THEN 0 ELSE Head(stmts).dur + SumDur(Tail(stmts))

OfKind(kinds) == SelectSeq(filter_parts, LAMBDA st : st.kind \in kinds)

\* The statements of the segments one timeline's concat joins, in order.
SegmentsOf(labels) ==
    SelectSeq(filter_parts, LAMBDA st : InSeq(st.out, labels))

Composed(kind) == \E k \in 1..Len(filter_parts) : filter_parts[k].kind = kind

AllClips == Flatten([t \in 1..Len(request.tracks) |-> request.tracks[t].clips])
ClipById(id) == CHOOSE c \in {AllClips[k] : k \in 1..Len(AllClips)} : c.id = id

\* The time a segment starts at: what the segments before it play for.
StartOf(segs, k) == SumDur(SubSeq(segs, 1, k - 1))

Assembled == pc \in {"engine", "respond"} \/ (pc = "done" /\ engine_runs > 0)

\* ------------------------------------------------------------ C1

\* C1 (as claimed): once a timeline with at least one retained clip is
\* concatenated, the durations of its segments (fillers and clips) add up
\* to max(project.duration, 1/framerate) within 1e-4 s, for video and for
\* audio.
C1_SegmentSumIsOutputDuration ==
    /\ Composed("vconcat") =>
         Abs(SumDur(SegmentsOf(video_segments)) - output_duration) <= U \div 10000
    /\ Composed("aconcat") =>
         Abs(SumDur(SegmentsOf(audio_segments)) - output_duration) <= U \div 10000

\* ------------------------------------------------------------ C2

\* C2 (as claimed): in each timeline every clip segment starts, by the sum
\* of the durations emitted before it, at its clip's startTime, and while a
\* timeline is being walked the cursor equals the sum of the durations
\* emitted so far.
C2_SegmentsContiguousAtStartTimes ==
    /\ \A labels \in {video_segments, audio_segments} :
         LET segs == SegmentsOf(labels)
         IN  \A k \in 1..Len(segs) :
               segs[k].kind \in {"vclip", "aclip"} =>
                   StartOf(segs, k) = ClipById(segs[k].clip).startTime
    /\ (pc = "video" /\ all_video # <<>>) =>
         current_t = SumDur(SegmentsOf(video_segments))
    /\ (pc = "audio" /\ all_audio # <<>>) =>
         current_t = SumDur(SegmentsOf(audio_segments))

\* ------------------------------------------------------------ C3

Stamps == OfKind({"drawtext"})
Produced(label) == \E k \in 1..Len(filter_parts) : filter_parts[k].out = label

\* C3 (as claimed): in the assembled command, when a stamp stage was
\* emitted the mapped video label is the output label of the last stage
\* emitted and some statement produces it; when none was emitted and there
\* is a video output, the mapped label is vout.
C3_MappedVideoLabelIsChainTail ==
    (Assembled /\ video_segments # <<>>) =>
        IF Stamps # <<>>
        THEN /\ args.maps[1] = Stamps[Len(Stamps)].out
             /\ Produced(args.maps[1])
        ELSE args.maps[1] = "vout"

\* ------------------------------------------------------------ C4

\* The product of the factors of a chain, each factor f standing for f / U.
Scale(f, p) ==
    IF p = U THEN f
    ELSE IF f % U = 0 THEN (f \div U) * p
    ELSE IF U % f = 0 THEN p \div (U \div f)
    ELSE (f * p) \div U

RECURSIVE ChainProduct(_)
ChainProduct(chain) ==
    IF chain = <<>> THEN U ELSE Scale(Head(chain), ChainProduct(Tail(chain)))

\* C4: for every speed s >= 0.01 the chain _atempo_chain(s) returns is not
\* empty, every factor lies in [0.5, 2.0], every factor but the last is one
\* of the bounds 2 or 0.5, and the product of the factors equals s within a
\* relative tolerance of 1e-6 (the six decimals of the remainder).
C4_TempoChainMultipliesToSpeed ==
    tempo_pc = "returned" =>
        LET s == ClampSpeed(tempo_speed)
            n == Len(tempo_chain)
        IN  /\ n >= 1
            /\ \A k \in 1..n : tempo_chain[k] >= U \div 2 /\ tempo_chain[k] <= 2 * U
            /\ \A k \in 1..(n - 1) : tempo_chain[k] \in {2 * U, U \div 2}
            /\ Abs(ChainProduct(tempo_chain) - s) <= s \div 1000000

\* A speed far above the range was decomposed with a rounded remainder.
C4_Witness ==
    /\ tempo_pc = "returned"
    /\ tempo_speed > 4 * U
    /\ Len(tempo_chain) = 3
    /\ ChainProduct(tempo_chain) # tempo_speed

\* ------------------------------------------------------------ C5

AudioClipsAtSpeed(speed) ==
    SelectSeq(OfKind({"aclip"}), LAMBDA st : st.speed = speed)

\* C5 (as claimed): an audio clip of speed 4.0 gets the three operations
\* 2.0, 2.0 and a remainder of 1.0.
C5_SpeedFourIsThreeOperations ==
    LET sts == AudioClipsAtSpeed(4 * U)
    IN  \A k \in 1..Len(sts) : sts[k].tempo = <<2 * U, 2 * U, U>>

\* C5 (amended): an audio clip of speed 4.0 gets two operations, the bound
\* 2.0 once and then the remainder 2.0 (2.0 is not above the range, so the
\* loop stops there).
C5_SpeedFourIsTwoOperations ==
    LET sts == AudioClipsAtSpeed(4 * U)
    IN  \A k \in 1..Len(sts) : sts[k].tempo = <<2 * U, 2 * U>>

C5_Witness ==
    /\ AudioClipsAtSpeed(4 * U) # <<>>
    /\ Composed("aconcat")

\* ------------------------------------------------------------ C6

\* The clips of the tracks of one type, in track order then clip order.
ClipsOfType(type) ==
    LET tracks == TracksOfType(type)
    IN  Flatten([t \in 1..Len(tracks) |-> tracks[t].clips])

InputPos(type, id) ==
    LET clips == ClipsOfType(type)
    IN  CHOOSE k \in 1..Len(clips) : clips[k].id = id

\* The clip segments of a timeline run by ascending startTime, equal
\* startTimes in input order.
InStartOrder(type, stmts) ==
    \A a \in 1..Len(stmts) : \A b \in (a + 1)..Len(stmts) :
        LET ca == ClipById(stmts[a].clip)
            cb == ClipById(stmts[b].clip)
        IN  \/ ca.startTime < cb.startTime
            \/ /\ ca.startTime = cb.startTime
               /\ InputPos(type, ca.id) < InputPos(type, cb.id)

\* The clip segments are the retained clips, each once.
AreRetained(type, stmts) ==
    LET items == ItemsOfType(type)
    IN  /\ Len(stmts) = Len(items)
        /\ {stmts[k].clip : k \in 1..Len(stmts)}
             = {items[k].clip.id : k \in 1..Len(items)}

\* C6: in each timeline the clip segments come in ascending startTime with
\* equal startTimes in input order (track order, then clip order), and the
\* concatenated timeline holds the retained clips, each once.
C6_SegmentsInStableStartOrder ==
    /\ InStartOrder("video", OfKind({"vclip"}))
    /\ InStartOrder("audio", OfKind({"aclip"}))
    /\ Composed("vconcat") => AreRetained("video", OfKind({"vclip"}))
    /\ Composed("aconcat") => AreRetained("audio", OfKind({"aclip"}))

\* A concatenated video timeline with two clips of one startTime that sit on
\* different tracks, and a third clip that starts earlier but comes later
\* in the input.
C6_Witness ==
    /\ Composed("vconcat")
    /\ LET stmts == OfKind({"vclip"})
       IN  /\ Len(stmts) = 3
           /\ stmts[1].clip = "c2"
           /\ stmts[2].clip = "c1"
           /\ stmts[3].clip = "c3"
           /\ ClipById("c1").startTime = ClipById("c3").startTime

\* ------------------------------------------------------------ C7

\* The index in filter_parts of the k-th statement of the given kinds.
PositionOf(kinds, k) ==
    CHOOSE p \in 1..Len(filter_parts) :
        /\ filter_parts[p].kind \in kinds
        /\ Cardinality({q \in 1..p : filter_parts[q].kind \in kinds}) = k

\* Where the cursor stands before the j-th item: the end of the item before.
CursorBefore(items, j) ==
    IF j = 1 THEN 0
    ELSE items[j - 1].clip.startTime
            + _clip_duration(items[j - 1].clip, items[j - 1].media)

FillerRule(items, clipKind, fillKind, concatKind, tolerance) ==
    LET n == Len(OfKind({clipKind}))
    IN  /\ \A j \in 1..n :
              LET p == PositionOf({clipKind}, j)
                  gap == items[j].clip.startTime - CursorBefore(items, j)
                  filled == p > 1 /\ filter_parts[p - 1].kind = fillKind
              IN  /\ filled <=> gap > tolerance
                  /\ filled => filter_parts[p - 1].dur = gap
        /\ Composed(concatKind) =>
              LET p == PositionOf({concatKind}, 1)
                  trail == output_duration - CursorBefore(items, n + 1)
                  filled == filter_parts[p - 1].kind = fillKind
              IN  /\ filled <=> trail > tolerance
                  /\ filled => filter_parts[p - 1].dur = trail
        /\ \A p \in 1..Len(filter_parts) :
              filter_parts[p].kind = fillKind =>
                  /\ filter_parts[p].dur > 0
                  /\ filter_parts[p].d > 0

\* C7: a filler stands before a clip, or after the last clip, exactly when
\* the gap (startTime - cursor, resp. total duration - cursor) is strictly
\* greater than the tolerance, 1/framerate for video and 0.001 s for audio;
\* its duration is that gap, so every filler has a positive duration.
C7_FillerIffGapExceedsTolerance ==
    /\ all_video # <<>> =>
         FillerRule(all_video, "vclip", "color", "vconcat", U \div request.framerate)
    /\ FillerRule(all_audio, "aclip", "anullsrc", "aconcat", U \div 1000)

\* Both timelines concatenated, the video one with a clip exactly one frame
\* after the cursor and no filler before it, the audio one with a filler.
C7_Witness ==
    /\ Composed("vconcat")
    /\ Composed("aconcat")
    /\ all_video[1].clip.startTime = U \div request.framerate
    /\ filter_parts[1].kind = "vclip"
    /\ OfKind({"anullsrc"}) # <<>>
    /\ OfKind({"color"}) # <<>>

\* ------------------------------------------------------------ C8

Consumers(label) ==
    {<<p, q>> \in (1..Len(filter_parts)) \X (1..Len(filter_parts)) :
        q <= Len(filter_parts[p].ins) /\ filter_parts[p].ins[q] = label}

\* C8 (as claimed): in the assembled command every label of the graph is
\* produced by exactly one statement and consumed by at most one, every
\* label consumed or mapped has a producer, and the labels no statement
\* consumes are the mapped outputs.
C8_LabelsProducedOnceConsumedOnce ==
    Assembled =>
        /\ \A a \in 1..Len(filter_parts) : \A b \in 1..Len(filter_parts) :
              filter_parts[a].out = filter_parts[b].out => a = b
        /\ \A p \in 1..Len(filter_parts) :
              /\ Cardinality(Consumers(filter_parts[p].out)) <= 1
              /\ \A q \in 1..Len(filter_parts[p].ins) :
                    Produced(filter_parts[p].ins[q])
              /\ Consumers(filter_parts[p].out) = {} =>
                    InSeq(filter_parts[p].out, args.maps)
        /\ \A m \in 1..Len(args.maps) : Produced(args.maps[m])

\* ------------------------------------------------------------ C9

\* The position, among the clips of the video tracks, of the clip whose
\* overlay has the given content.
OverlayPos(text) ==
    CHOOSE k \in 1..Len(ClipsOfType("video")) :
        ClipsOfType("video")[k].textOverlay.content = text

\* C9: the stamp stages come by ascending overlay start, equal starts in
\* input order; the first reads vout and every later one reads the output
\* label of the stage emitted just before it; once the loop is over there
\* is one stage per overlay of non-empty content and positive window.
C9_StampsChainedInStartOrder ==
    /\ \A k \in 1..Len(Stamps) :
          Stamps[k].ins = <<IF k = 1 THEN "vout" ELSE Stamps[k - 1].out>>
    /\ \A a \in 1..Len(Stamps) : \A b \in (a + 1)..Len(Stamps) :
          \/ Stamps[a].start < Stamps[b].start
          \/ /\ Stamps[a].start = Stamps[b].start
             /\ OverlayPos(Stamps[a].text) < OverlayPos(Stamps[b].text)
    /\ pc \in {"audio", "assemble"} =>
          {Stamps[k].text : k \in 1..Len(Stamps)}
            = {c.textOverlay.content :
                 c \in {x \in {ClipsOfType("video")[k] :
                                 k \in 1..Len(ClipsOfType("video"))} :
                          /\ x.textOverlay.present
                          /\ x.textOverlay.content # ""
                          /\ x.textOverlay.duration > 0}}

\* Three overlays with overlapping windows, the middle one of empty
\* content: two stages, the second reading the first one's label; the later
\* clip of the input starts first.
C9_Witness ==
    /\ pc = "audio"
    /\ Len(text_overlays) = 3
    /\ text_overlays[2].overlay.content = ""
    /\ text_overlays[1].overlay.content = "t3"
    /\ text_overlays[1].end > text_overlays[3].start
    /\ Len(Stamps) = 2
    /\ Stamps[2].ins = <<"vtxt0">>

\* ------------------------------------------------------------ C10

Finished == pc = "done"

NamesMissingUpload(clips) ==
    \E k \in 1..Len(clips) : clips[k].mediaId \notin request.uploads

\* C10 (as claimed): when a clip of a well-formed project names a media id
\* with no uploaded bytes, the engine is never invoked and the request ends
\* with 400.
C10_AnyMissingUploadIs400 ==
    (request.shape = "ok" /\ NamesMissingUpload(AllClips)) =>
        /\ engine_runs = 0
        /\ Finished => response.status = 400

\* C10 (amended): when, in a well-formed request, a clip the linearizer
\* retained names a media id with no uploaded bytes, the engine is never
\* invoked and the request ends with 400 "Missing uploaded media".
C10_RetainedMissingUploadIs400 ==
    (request.shape = "ok"
       /\ NamesMissingUpload([k \in 1..Len(all_video \o all_audio) |->
                                 (all_video \o all_audio)[k].clip])) =>
        /\ engine_runs = 0
        /\ Finished => /\ response.status = 400
                       /\ response.detail = "Missing uploaded media"

\* The request ended on the missing upload of the second of two retained
\* clips, the first one's media being uploaded.
C10_Witness ==
    /\ Finished
    /\ response.detail = "Missing uploaded media"
    /\ Len(all_video) = 1
    /\ Len(all_audio) = 1
    /\ all_video[1].media.id \in request.uploads
    /\ all_audio[1].media.id \notin request.uploads

\* ------------------------------------------------------------ C11

\* What the request says of a media: the stream kinds ffprobe reports for
\* its saved file, none when no file was uploaded for it.
ProbedKinds(id) == IF id \in request.uploads THEN request.probe[id] ELSE {}

\* What the request says of a clip on a track of one type: its media is
\* listed, and the probed kinds contain the type or, being empty, leave the
\* decision to the declared type.
Keeps(clip, type) ==
    \E m \in MediaNamed(clip.mediaId) :
        \/ type \in ProbedKinds(m.id)
        \/ (ProbedKinds(m.id) = {} /\ m.type = type)

KeptClips(type) == SelectSeq(ClipsOfType(type), LAMBDA c : Keeps(c, type))

\* The video-track clips that declare an overlay of positive duration.
DeclaredWindows ==
    SelectSeq(ClipsOfType("video"),
              LAMBDA c : c.textOverlay.present /\ c.textOverlay.duration > 0)

\* The project document has the fields the handler reads up to the check.
ProjectReadable == request.shape \in {"ok", "nosettings"}

\* C11: when the project leaves no clip on the video timeline and none on
\* the audio timeline after the stream-kind filtering, and declares no
\* overlay window, the handler never goes past the empty-timeline check,
\* ffmpeg is never invoked and the request ends with 400 "No clips to
\* render"; this includes the audio-track clip whose media has no audio
\* stream.
C11_EmptyTimelineIs400 ==
    (ProjectReadable /\ KeptClips("video") = <<>> /\ KeptClips("audio") = <<>>
       /\ DeclaredWindows = <<>>) =>
        /\ pc \in {"start", "uploads", "collect", "linearize", "done"}
        /\ engine_runs = 0
        /\ Finished => /\ response.status = 400
                       /\ response.detail = "No clips to render"

\* The request ended on the empty timeline after the only audio-track clip,
\* of a media declared audio whose file has a video stream only, was dropped.
C11_Witness ==
    /\ Finished
    /\ response.detail = "No clips to render"
    /\ \E k \in 1..Len(ClipsOfType("audio")) :
         \E m \in MediaNamed(ClipsOfType("audio")[k].mediaId) :
            /\ m.type = "audio"
            /\ ProbedKinds(m.id) = {"video"}
    /\ all_audio = <<>>
    /\ all_video = <<>>

\* ------------------------------------------------------------ C12

\* C12 (as claimed): a request whose documents are missing, are not JSON,
\* or lack a field the handler reads never gets a temporary directory, no
\* upload of it is saved or probed, ffmpeg is never invoked, and it ends
\* with a status between 400 and 499.
C12_MalformedIs4xxNoPartialWork ==
    request.shape \in BadShapes =>
        /\ temp_dir = "none"
        /\ media_paths = EmptyMap
        /\ stream_types_by_media = EmptyMap
        /\ engine_runs = 0
        /\ Finished => response.status \in 400..499

\* ------------------------------------------------------------ C13

\* C13: a request that got a temporary directory does not keep it: no
\* error response is ever out while the directory is held (an error exit
\* removes it before answering), no ended request holds it, and a
\* directory that is held (on the success path also after the response
\* 200) is eventually removed.
C13_TempDirReleased ==
    /\ [](response.status \notin {0, 200} => temp_dir # "held")
    /\ [](Finished => temp_dir # "held")
    /\ [](temp_dir = "held" => <>(temp_dir = "released"))

\* The file was returned and the background task then removed the
\* directory.
C13_Witness ==
    /\ Finished
    /\ response.status = 200
    /\ temp_dir = "released"
    /\ engine_runs = 1

\* ------------------------------------------------------------ C14

\* The linearizer has run on a readable project.
Linearized ==
    /\ ProjectReadable
    /\ pc \notin {"start", "uploads", "collect", "linearize"}

ClipIds(items) == {items[k].clip.id : k \in 1..Len(items)}

\* C14: once the clips are linearized, the items of the video timeline are,
\* each once, the video-track clips whose media is listed and whose probed
\* kinds contain video or, being empty, leave it to a declared type video;
\* the same for audio; and the request ends on the empty timeline only when
\* nothing was retained and no overlay window was declared, so that a
\* dropped clip alone does not end it.
C14_RetainedIffStreamKind ==
    Linearized =>
        /\ \A type \in {"video", "audio"} :
             LET items == IF type = "video" THEN all_video ELSE all_audio
                 kept == KeptClips(type)
             IN  /\ ClipIds(items) = {kept[k].id : k \in 1..Len(kept)}
                 /\ Len(items) = Len(kept)
        /\ response.detail = "No clips to render" =>
             /\ KeptClips("video") = <<>>
             /\ KeptClips("audio") = <<>>
             /\ DeclaredWindows = <<>>

\* The video-track clip of a media declared video whose file has an audio
\* stream only was dropped, the audio-track clip of a media declared audio
\* whose probe found nothing was retained, and the handler went on.
C14_Witness ==
    /\ pc = "inputs"
    /\ all_video = <<>>
    /\ \E k \in 1..Len(ClipsOfType("video")) :
         \E m \in MediaNamed(ClipsOfType("video")[k].mediaId) :
            m.type = "video" /\ ProbedKinds(m.id) = {"audio"}
    /\ Len(all_audio) = 1
    /\ all_audio[1].media.type = "audio"
    /\ all_audio[1].media.id \in request.uploads
    /\ ProbedKinds(all_audio[1].media.id) = {}

\* ------------------------------------------------------------ C15

\* C15 (as claimed): in the assembled command, when no video clip was
\* retained and an overlay window was collected, the only video statement
\* besides the stamp stages is one black filler of duration
\* max(project.duration, 1/framerate) with the label vout, there is no video
\* concat, and the first -map names vout when no stamp stage was emitted
\* and else the label the last emitted stage produces; when no video clip
\* was retained and no overlay window was collected, no video label is
\* mapped and no video codec is set.
C15_OverlayOnlyVideoIsBlank ==
    (Assembled /\ all_video = <<>>) =>
        IF text_overlays # <<>>
        THEN /\ OfKind({"color", "vclip", "vconcat"})
                    = <<ColorFiller("vout", output_duration)>>
             /\ args.maps # <<>>
             /\ args.maps[1] = (IF Stamps = <<>> THEN "vout"
                                ELSE Stamps[Len(Stamps)].out)
             /\ Produced(args.maps[1])
             /\ args.vcodec # ""
        ELSE /\ ~InSeq("vout", args.maps)
             /\ ~InSeq("vout_text", args.maps)
             /\ args.vcodec = ""

\* ------------------------------------------------------------ C16

\* The inputs were built without a missing upload.
InputsBuilt == pc \in {"video", "text", "audio", "assemble"} \/ Assembled

\* The retained items in the order the inputs are built from, and the file
\* an item's media was saved as.
Items == all_video \o all_audio
PathOf(item) == media_paths[item.media.id]
FirstUse(path) ==
    CHOOSE k \in 1..Len(Items) :
        /\ PathOf(Items[k]) = path
        /\ \A j \in 1..(k - 1) : PathOf(Items[j]) # path

\* C16: once the inputs are built, no path is there twice, the paths are
\* those of the files of the retained items, they stand in the order in
\* which the items, video then audio, first use them, and two items whose
\* media were saved as the same file have the same input position.
C16_InputsDistinctInFirstUseOrder ==
    InputsBuilt =>
        /\ \A a, b \in 1..Len(inputs) : a # b => inputs[a] # inputs[b]
        /\ {inputs[k] : k \in 1..Len(inputs)}
               = {PathOf(Items[k]) : k \in 1..Len(Items)}
        /\ \A a, b \in 1..Len(inputs) :
               a < b => FirstUse(inputs[a]) < FirstUse(inputs[b])
        /\ \A x, y \in 1..Len(Items) :
               PathOf(Items[x]) = PathOf(Items[y]) =>
                   input_index[Items[x].media.id] = input_index[Items[y].media.id]

\* Four items of three media used two files: two media ids were saved as
\* one file and share the second input position, after the file first used.
C16_Witness ==
    /\ InputsBuilt
    /\ Len(Items) = 4
    /\ Len(inputs) = 2
    /\ \E x, y \in 1..Len(Items) :
         /\ Items[x].media.id # Items[y].media.id
         /\ PathOf(Items[x]) = PathOf(Items[y])
         /\ input_index[Items[x].media.id] = 1
         /\ input_index[Items[y].media.id] = 1
    /\ \E x, y \in 1..Len(Items) :
         x # y /\ Items[x].media.id = Items[y].media.id

\* ------------------------------------------------------------ C17

\* ffmpeg was run and returned non-zero or left no file.
EngineFailed == engine_runs > 0 /\ (proc.returncode # 0 \/ ~proc.exists)

\* The lines of a text that are not blank (the diagnostic texts drawn have
\* their blank lines at the end).
Written(text) == SelectSeq(text, LAMBDA l : l # "")

\* C17: ffmpeg is run at most once per request, and when it returned
\* non-zero or left no file the request ends at once with 500 "FFmpeg
\* failed" and a message of at most 25 lines: the last lines of the
\* diagnostic text, all of them when it has no more than 25 and never all
\* when it has more, or the one line "Unknown ffmpeg error" when nothing
\* was written.
C17_EngineFailureIsBoundedTail ==
    /\ engine_runs <= 1
    /\ EngineFailed =>
         LET text == Written(proc.stderr)
             msg == response.err_lines
             n == Len(text)
         IN  /\ Finished
             /\ response.status = 500
             /\ response.detail = "FFmpeg failed"
             /\ Len(msg) <= TailLines
             /\ IF n = 0 THEN msg = <<"Unknown ffmpeg error">>
                ELSE /\ Len(msg) = (IF n < TailLines THEN n ELSE TailLines)
                     /\ msg = SubSeq(text, n - Len(msg) + 1, n)
             /\ n > TailLines => msg # text

\* ffmpeg failed with more lines than are kept, and the message has the
\* last 25 of them.
C17_Witness ==
    /\ EngineFailed
    /\ Len(Written(proc.stderr)) > TailLines
    /\ Len(response.err_lines) = TailLines
    /\ response.err_lines[1] = "line 2"
    /\ proc.returncode = 0

\* ------------------------------------------------------------ C18

\* Scenario A: one clip on the video tracks, retained, at startTime 2.0 with
\* no trim and speed 1, of a media of 3.0 s; project duration 5.0 s,
\* framerate 30.
ScenarioA ==
    LET clips == ClipsOfType("video")
    IN  /\ request.shape = "ok"
        /\ Len(clips) = 1
        /\ clips[1].startTime = 2 * U
        /\ clips[1].trimStart = 0
        /\ clips[1].trimEnd = 0
        /\ clips[1].speed = U
        /\ Keeps(clips[1], "video")
        /\ \A m \in MediaNamed(clips[1].mediaId) : m.duration = 3 * U
        /\ request.duration = 5 * U
        /\ request.framerate = 30

\* C18: in scenario A, once the video timeline is walked, its statements
\* are a black filler of 2.0 s (from 0 to 2.0), then the clip's chain of
\* 3.0 s (from 2.0 to 5.0), then a concat with n = 2 of these two segments:
\* no trailing filler.
C18_ScenarioATwoSegments ==
    (ScenarioA /\ InputsBuilt /\ pc # "video") =>
        LET vid == OfKind({"color", "vclip", "vconcat"})
        IN  /\ Len(vid) = 3
            /\ vid[1].kind = "color"
            /\ vid[1].dur = 2 * U
            /\ vid[1].d = 2 * U
            /\ vid[2].kind = "vclip"
            /\ vid[2].clip = ClipsOfType("video")[1].id
            /\ vid[2].dur = 3 * U
            /\ StartOf(vid, 2) = 2 * U
            /\ StartOf(vid, 3) = 5 * U
            /\ vid[3].kind = "vconcat"
            /\ vid[3].n = 2
            /\ vid[3].ins = <<vid[1].out, vid[2].out>>
            /\ video_segments = vid[3].ins

\* Scenario A was assembled.
C18_Witness ==
    /\ ScenarioA
    /\ pc = "engine"
    /\ Len(video_segments) = 2
    /\ args.maps[1] = "vout"

\* ------------------------------------------------------------ C19

ClipChains == OfKind({"vclip", "aclip"})

\* C19: the input position every clip chain reads from is one of the
\* positions of the inputs, counted from 0, and the input at that position
\* is the file the upload of the clip's own media id was saved as.
C19_SourceIsOwnMediaInput ==
    \A k \in 1..Len(ClipChains) :
        LET st == ClipChains[k]
            media_id == ClipById(st.clip).mediaId
        IN  /\ 0 <= st.src
            /\ st.src < Len(inputs)
            /\ media_id \in DOMAIN media_paths
            /\ inputs[st.src + 1] = media_paths[media_id]

\* An assembled command of two inputs: a video chain and an audio chain of
\* clips of two media ids saved as one file both read from the second
\* input, and another chain from the first.
C19_Witness ==
    /\ pc = "engine"
    /\ Len(inputs) = 2
    /\ \E a, b, c \in 1..Len(ClipChains) :
         /\ ClipChains[a].kind = "vclip"
         /\ ClipChains[b].kind = "aclip"
         /\ ClipById(ClipChains[a].clip).mediaId
                # ClipById(ClipChains[b].clip).mediaId
         /\ ClipChains[a].src = 1
         /\ ClipChains[b].src = 1
         /\ ClipChains[c].src = 0

\* ------------------------------------------------------------ C20

\* The overlays were collected from a readable project.
Collected == ProjectReadable /\ pc \notin {"start", "uploads", "collect"}

\* The window a clip's overlay is collected as.
WindowOf(clip) ==
    [start |-> clip.startTime,
     end |-> clip.startTime + clip.textOverlay.duration,
     overlay |-> clip.textOverlay]

\* C20: once the overlays are collected, text_overlays holds, each as many
\* times as declared, the windows of the overlays of positive duration of
\* the clips of the video tracks and nothing else, whether the linearizer
\* retains these clips or not; no overlay of an audio-track clip is there.
C20_OverlaysOfVideoTrackClips ==
    Collected =>
        LET declared == [k \in 1..Len(DeclaredWindows) |->
                            WindowOf(DeclaredWindows[k])]
            Count(seq, x) == Cardinality({ k \in 1..Len(seq) : seq[k] = x })
        IN  /\ Len(text_overlays) = Len(declared)
            /\ \A k \in 1..Len(declared) :
                   Count(text_overlays, declared[k]) = Count(declared, declared[k])
            /\ \A k \in 1..Len(text_overlays) :
                   Count(declared, text_overlays[k]) > 0

\* The clips of the video track were all dropped for their unlisted media
\* and the overlays of two of them were collected, the third having no
\* duration; the overlay of the retained audio-track clip was not.
C20_Witness ==
    /\ pc = "video"
    /\ all_video = <<>>
    /\ Len(ClipsOfType("video")) = 3
    /\ Len(text_overlays) = 2
    /\ \E k \in 1..3 :
         /\ ClipsOfType("video")[k].textOverlay.present
         /\ ClipsOfType("video")[k].textOverlay.duration = 0
    /\ Len(all_audio) = 1
    /\ all_audio[1].clip.textOverlay.present
    /\ all_audio[1].clip.textOverlay.duration > 0

====
